---- MODULE Spec2Model ----
(***************************************************************************)
(* A model of createStore (src/store.js, lines 26-642): the state          *)
(* document, the generic set-<key> dispatch, listeners, watchers, and the  *)
(* undo/redo history.                                                      *)
(*                                                                         *)
(* JavaScript is single threaded and every store call runs to completion,  *)
(* listeners included, so each top-level call is one action; the calls a   *)
(* listener makes back into the store while it is being notified are       *)
(* evaluated inside that action by the recursive operators below.          *)
(*                                                                         *)
(* Conventions                                                             *)
(*  - a string is a sequence of tokens in which "-" and "." are tokens of  *)
(*    their own: 'set-x' is <<"set", "-", "x">>;                           *)
(*  - a JavaScript number used as a history index is held in halves, so    *)
(*    that 1.5 can be told from 1 and 2: the index i is the integer 2*i;   *)
(*  - a value is a record [t, n, d, ext]: t its type, n the number, d the  *)
(*    entries of an object, ext whether code outside the store holds a     *)
(*    reference to this very object;                                       *)
(*  - a document is the sequence of its entries [k, v] in key order.       *)
(*                                                                         *)
(* Left out: the DOM (bind, bindAll, updateBindings; of autoBind there is   *)
(* the handler of a bound input), the reading of the storage when a store  *)
(* is constructed (the storage is empty then), the dev panel and the       *)
(* computed properties.                                                    *)
(* An object is held under one key at a time, and its fields hold          *)
(* primitive values, each named by a number.                               *)
(***************************************************************************)
EXTENDS Integers, Sequences, FiniteSets, TLC

VARIABLES
    state,            \* the canonical state document (line 32)
    __history,        \* the snapshots (line 454)
    __historyIndex,   \* the current index, in halves (line 455)
    listeners,        \* the Set of global listeners, in insertion order (line 68)
    watchAllFns,      \* the Set of watch-all listeners (line 80)
    held,             \* whether code outside the store holds the reference `state`
    others,           \* the stores created after the first one
    locked,           \* the variable `locked` of every linkTwoWay (line 305)
    __syncKeys,       \* store.__syncKeys of every store that has some (line 95)
    storage,          \* the items of storageDriver
    returned,         \* the objects that getState and __getHistory returned
    log,              \* the top-level calls made so far, with what each
                      \* found, did and returned
    limit             \* how many calls and listeners the callers make

vars == <<state, __history, __historyIndex, listeners, watchAllFns, held,
          others, locked, __syncKeys, storage, returned, log, limit>>

-----------------------------------------------------------------------------
(* Bounds of the model *)

\* the number of top-level calls of a run
MaxOps == 3
\* the number of listeners that are registered
MaxListeners == 1
\* the nesting of store calls made from listeners that is followed
MaxDepth == 6

-----------------------------------------------------------------------------
(* Values and documents *)

Undefined == [t |-> "undefined", n |-> 0, d |-> <<>>, ext |-> FALSE]
Num(n) == [t |-> "number", n |-> n, d |-> <<>>, ext |-> FALSE]
\* NaN, the number that is not equal to itself
NaN == [t |-> "number", n |-> -1, d |-> <<>>, ext |-> FALSE]
Obj(d, ext) == [t |-> "object", n |-> 0, d |-> d, ext |-> ext]

\* the object {b: n}
ObjB(n) == Obj(<<[k |-> "b", n |-> n]>>, TRUE)

Has(doc, key) == \E i \in DOMAIN doc : doc[i].k = key

\* doc[key]
Get(doc, key) ==
    IF Has(doc, key)
    THEN doc[CHOOSE i \in DOMAIN doc : doc[i].k = key].v
    ELSE Undefined

\* doc[key] = val: an existing key keeps its place, a new key is appended
Assign(doc, key, val) ==
    IF Has(doc, key)
    THEN [i \in DOMAIN doc |->
            IF doc[i].k = key THEN [k |-> key, v |-> val] ELSE doc[i]]
    ELSE Append(doc, [k |-> key, v |-> val])

\* obj[k] of a value: a field of an object, undefined of anything else
Field(v, k) ==
    IF v.t = "object" /\ \E j \in DOMAIN v.d : <<v.d[j].k>> = k
    THEN Num(v.d[CHOOSE j \in DOMAIN v.d : <<v.d[j].k>> = k].n)
    ELSE Undefined

\* structuredClone of a value: the same content in a new object
cloneValue(v) == [v EXCEPT !.ext = FALSE]

\* structuredClone of a document
structuredClone(doc) ==
    [i \in DOMAIN doc |-> [k |-> doc[i].k, v |-> cloneValue(doc[i].v)]]

\* JSON.stringify of a value that is not undefined: NaN gives 'null'
stringifyValue(v) ==
    IF v.t = "number" /\ v.n = NaN.n
    THEN [t |-> "null", n |-> 0, d |-> <<>>]
    ELSE [t |-> v.t, n |-> v.n, d |-> v.d]

\* JSON.stringify of a document: entries in key order, those whose value
\* is undefined left out
JSON_stringify(doc) ==
    LET kept == SelectSeq(doc, LAMBDA e : e.v.t # "undefined")
    IN  [i \in DOMAIN kept |-> [k |-> kept[i].k, v |-> stringifyValue(kept[i].v)]]

-----------------------------------------------------------------------------
(* Strings *)

RECURSIVE split(_, _)
\* String.prototype.split
split(s, sep) ==
    IF \E i \in DOMAIN s : s[i] = sep
    THEN LET i == CHOOSE j \in DOMAIN s :
                     s[j] = sep /\ \A m \in 1..(j - 1) : s[m] # sep
         IN  <<SubSeq(s, 1, i - 1)>> \o split(SubSeq(s, i + 1, Len(s)), sep)
    ELSE <<s>>

\* a value passed as the action type that is not a string
NotAString == <<"(number)">>

\* typeof type === 'string'
IsString(type) == type # NotAString

HistoryJump == <<"history", "-", "jump">>

RECURSIVE reduceKeys(_, _, _)
\* keys.reduce((o, k) => (o || {})[k], ...) from the j-th key on
reduceKeys(v, keys, j) ==
    IF j > Len(keys) THEN v ELSE reduceKeys(Field(v, keys[j]), keys, j + 1)

\* line 40
getAtPath(doc, path) ==
    LET keys == split(path, ".")
    IN  reduceKeys(Get(doc, keys[1]), keys, 2)

\* obj[k] = n of an object: an existing field keeps its place
SetField(v, k, n) ==
    IF \E j \in DOMAIN v.d : v.d[j].k = k
    THEN [v EXCEPT !.d = [j \in DOMAIN v.d |->
                             IF v.d[j].k = k THEN [k |-> k, n |-> n] ELSE v.d[j]]]
    ELSE [v EXCEPT !.d = Append(v.d, [k |-> k, n |-> n])]

\* lines 47-52, for a path of one or two keys and a primitive val: a missing
\* object is made (`??=`); a property of a primitive cannot be assigned in
\* the strict mode of a module, which throws
setAtPath(doc, path, val) ==
    LET keys == split(path, ".")
        o == Get(doc, keys[1])
        target == IF o.t = "undefined" THEN Obj(<<>>, FALSE) ELSE o
    IN  IF Len(keys) = 1
        THEN [doc |-> Assign(doc, keys[1], val), thrown |-> FALSE]
        ELSE IF target.t # "object"
        THEN [doc |-> doc, thrown |-> TRUE]
        ELSE [doc |-> Assign(doc, keys[1], SetField(target, keys[2][1], val.n)),
              thrown |-> FALSE]

\* typeof fn === 'function' ? fn(val) : val, for the functions given to
\* linkTwoWay: none, x => x, and one that maps 1 to 2 and 2 to 1
transform(fn, val) ==
    CASE fn = "invert" /\ val = Num(1) -> Num(2)
      [] fn = "invert" /\ val = Num(2) -> Num(1)
      [] OTHER -> val

-----------------------------------------------------------------------------
(* Calls and listeners *)

\* a call of the store's API
Call(name, type, payload, skipHistory, index) ==
    [name |-> name, type |-> type, payload |-> payload,
     skipHistory |-> skipHistory, index |-> index]

NoCall == Call("none", <<>>, Undefined, FALSE, 0)
DispatchCall(type, payload, skipHistory) == Call("dispatch", type, payload, skipHistory, 0)
UndoCall == Call("undo", <<>>, Undefined, FALSE, 0)
RedoCall == Call("redo", <<>>, Undefined, FALSE, 0)
\* jumpTo(index): `type` holds typeof index, `index` the number in halves
JumpToCall(typeofIndex, index) == Call("jumpTo", <<typeofIndex>>, Undefined, FALSE, index)

\* no link: the callback of the watcher is a function of the caller
NoLink == [to |-> 0, lock |-> 0, fn |-> "none"]

\* a function in `listeners`
Listener(kind, on, do, key, prev, link) ==
    [kind |-> kind, on |-> on, do |-> do, key |-> key, prev |-> prev,
     link |-> link]

\* a function given to store.subscribe that only looks at the event
Observer == Listener("subscribe", <<>>, NoCall, <<>>, Undefined, NoLink)

\* a function given to store.subscribe that calls the store when it sees
\* an event of type `on`
Reenter(on, do) == Listener("reenter", on, do, <<>>, Undefined, NoLink)

\* the listener store.watch(key, fn) registers, with its last seen value
Watcher(key, prev) == Listener("watch", <<>>, NoCall, key, prev, NoLink)

\* the listener store.watchPath(path, fn) registers, with its last seen
\* value
PathWatcher(path, prev) == Listener("watchPath", <<>>, NoCall, path, prev, NoLink)

\* the listener that linkTwoWay registers with watch(key, ...) on one of its
\* two stores: its callback is updateFromOther or updateFromThis of the
\* link `lock`, which dispatches fn(value) on the store `to`
LinkWatcher(key, prev, to, lock, fn) ==
    Listener("watch", <<>>, NoCall, key, prev, [to |-> to, lock |-> lock, fn |-> fn])

\* the function that once(on, fn) subscribes: it calls fn and then off();
\* fn makes the call `do` unless the payload it is given is that of `do`.
\* After off() the function is no longer in `listeners`: its kind is "off"
Once(on, do) == Listener("once", on, do, <<>>, Undefined, NoLink)

\* a function given to store.subscribe that throws when it is called
Thrower == Listener("throws", <<>>, NoCall, <<>>, Undefined, NoLink)

\* one invocation of a function given to the store: the i-th function of
\* its collection, called for the event `type` with the value `arg` (the
\* payload of the event, or the value a watch callback is given) or with
\* the documents `next` and `prev` (a watch-all listener), while the state
\* document was `seen`
Invocation(who, store, i, type, arg, next, prev, seen) ==
    [who |-> who, store |-> store, i |-> i, type |-> type, arg |-> arg,
     next |-> next, prev |-> prev, seen |-> seen]

-----------------------------------------------------------------------------
(* The store: its variables as one record, for the operators below *)

\* what belongs to one store
PerStore(s) ==
    [state |-> s.state, history |-> s.history, index |-> s.index,
     listeners |-> s.listeners, watchAllFns |-> s.watchAllFns, held |-> s.held]

\* the place in `others` of the store that is in focus
InFocus ==
    [state |-> <<>>, history |-> <<>>, index |-> 0,
     listeners |-> <<>>, watchAllFns |-> <<>>, held |-> FALSE]

\* the store `self` in focus, the other stores, the `locked` flag of every
\* link, and what the call being made has done so far
StoreOf(st, hist, idx, ls, was, h) ==
    [state |-> st, history |-> hist, index |-> idx, listeners |-> ls,
     watchAllFns |-> was, held |-> h,
     self |-> 1, others |-> <<>>, locked |-> <<>>,
     syncKeys |-> <<>>, storage |-> <<>>,
     calls |-> <<>>, dispatches |-> <<>>, nested |-> 0, overflow |-> FALSE,
     fanouts |-> 0, thrown |-> FALSE,
     ret |-> "undefined", changed |-> FALSE]

\* a comparison that takes every notification for a change
hasChanged_Always(next, prev) == TRUE

\* a comparison with !== alone: an object is never its own copy
hasChanged_Identity(next, prev) ==
    IF next.t = "object" THEN TRUE ELSE next # prev

\* lines 151-153 and 403-405: JSON text for an object, !== for the rest
\* (`prev` is a copy, never `next` itself)
hasChanged(next, prev) ==
    IF next.t = "object"
    THEN stringifyValue(next) # stringifyValue(prev)
    ELSE next # prev \/ next = NaN

\* the same world with the store j in focus
Focus(s, j) ==
    IF j = s.self
    THEN s
    ELSE LET o == s.others[j]
         IN  [s EXCEPT !.state = o.state, !.history = o.history,
                       !.index = o.index, !.listeners = o.listeners,
                       !.watchAllFns = o.watchAllFns, !.held = o.held,
                       !.self = j,
                       !.others = [@ EXCEPT ![s.self] = PerStore(s),
                                            ![j] = InFocus]]

\* ToIntegerOrInfinity of a number held in halves
ToInteger(h) == IF h >= 0 THEN h \div 2 ELSE -((-h) \div 2)

IsInteger(h) == h % 2 = 0

\* Array.prototype.splice(start): what is left of the array
splice(arr, start) ==
    LET rel == ToInteger(start)
        len == Len(arr)
        actualStart == IF rel < 0
                       THEN (IF len + rel > 0 THEN len + rel ELSE 0)
                       ELSE (IF rel < len THEN rel ELSE len)
    IN  SubSeq(arr, 1, actualStart)

\* __history[index]: undefined unless index is an integer index of the array
\* (structuredClone(undefined) is undefined and Object.assign copies nothing)
HistoryAt(hist, index) ==
    IF IsInteger(index) /\ index >= 0 /\ index < 2 * Len(hist)
    THEN hist[(index \div 2) + 1]
    ELSE <<>>

\* pushHistory without line 463: the forward snapshots are kept
pushHistory_KeepsTail(s) ==
    LET snapshot == structuredClone(s.state)
    IN  [s EXCEPT !.history = Append(s.history, snapshot),
                  !.index = s.index + 2]

\* lines 461-466
pushHistory(s) ==
    LET snapshot == structuredClone(s.state)
    IN  [s EXCEPT !.history = Append(splice(s.history, s.index + 2), snapshot),
                  !.index = s.index + 2]

-----------------------------------------------------------------------------
(* The store's operations. Each takes the store and the nesting still      *)
(* followed, and gives the store after the call, listeners included.       *)

\* lines 309-312 and 317-320: `locked = false` after the dispatch, which an
\* exception of the dispatch does not reach
unlock(back, lock) ==
    IF back.thrown THEN back ELSE [back EXCEPT !.locked[lock] = FALSE]

\* line 188: off() after fn(payload), which an exception of fn does not reach
off(done, i) ==
    IF done.thrown THEN done ELSE [done EXCEPT !.listeners[i].kind = "off"]

RECURSIVE storeCall(_, _, _)
RECURSIVE updateFrom(_, _, _, _, _)
RECURSIVE callListener(_, _, _, _, _, _)
RECURSIVE forEachListener(_, _, _, _, _, _)
RECURSIVE notify(_, _, _, _)
RECURSIVE originalDispatch(_, _, _, _)
RECURSIVE dispatch(_, _, _, _, _)
RECURSIVE applyHistory(_, _, _)
RECURSIVE undo(_, _)
RECURSIVE redo(_, _)
RECURSIVE jumpTo(_, _, _)

\* a call a listener makes back into a store; what it returns is dropped
storeCall(s, c, fuel) ==
    IF fuel = 0
    THEN [s EXCEPT !.overflow = TRUE]
    ELSE LET s1 == [s EXCEPT !.nested = s.nested + 1]
         IN  CASE c.name = "dispatch" ->
                    dispatch(s1, c.type, c.payload, c.skipHistory, fuel)
               [] c.name = "undo" -> undo(s1, fuel)
               [] c.name = "redo" -> redo(s1, fuel)
               [] c.name = "jumpTo" -> jumpTo(s1, c, fuel)
               [] OTHER -> s

\* updateFromOther and updateFromThis with the lock taken out
updateFrom_Unlocked(s, link, key, val, fuel) ==
    LET newVal == transform(link.fn, val)
        there == Focus(s, link.to)
        done == storeCall(there, DispatchCall(<<"set", "-">> \o key, newVal, FALSE),
                          fuel)
    IN  Focus(done, s.self)

\* lines 291-294: the callback of the watcher of a one-way link
linkFrom(s, link, key, val, fuel) ==
    LET newVal == transform(link.fn, val)
        there == Focus(s, link.to)
        done == storeCall(there, DispatchCall(<<"set", "-">> \o key, newVal, FALSE),
                          fuel)
    IN  Focus(done, s.self)

\* updateFromOther and updateFromThis that pass the value on as it is
updateFrom_Untransformed(s, link, key, val, fuel) ==
    IF s.locked[link.lock]
    THEN s
    ELSE LET s1 == [s EXCEPT !.locked[link.lock] = TRUE]
             there == Focus(s1, link.to)
             done == storeCall(there,
                               DispatchCall(<<"set", "-">> \o key, val, FALSE),
                               fuel)
         IN  unlock(Focus(done, s.self), link.lock)

\* lines 307-313 and 315-321: the callback of a link's watcher, called with
\* the new value; an exception of the dispatch leaves `locked` set
updateFrom(s, link, key, val, fuel) ==
    IF s.locked[link.lock]
    THEN s
    ELSE LET s1 == [s EXCEPT !.locked[link.lock] = TRUE]
             newVal == transform(link.fn, val)
             there == Focus(s1, link.to)
             done == storeCall(there,
                               DispatchCall(<<"set", "-">> \o key, newVal, FALSE),
                               fuel)
         IN  unlock(Focus(done, s.self), link.lock)

\* the i-th function of `listeners` called with the event {type, payload};
\* `isState` says that the payload is the reference `state`
callListener(s, i, type, payload, isState, fuel) ==
    LET l == s.listeners[i]
        called == Append(s.calls,
                         Invocation("listener", s.self, i, type,
                                    IF isState THEN Undefined ELSE payload,
                                    IF isState THEN s.state ELSE <<>>,
                                    <<>>, s.state))
        seen == [s EXCEPT !.calls = called, !.held = s.held \/ isState]
    IN  CASE l.kind = "subscribe" -> seen
          [] l.kind = "throws" -> [seen EXCEPT !.thrown = TRUE]
          [] l.kind = "reenter" ->
                IF type = l.on THEN storeCall(seen, l.do, fuel - 1) ELSE seen
          [] l.kind = "once" ->
                \* lines 171-173 and 186-189: fn(payload), then off()
                IF type # l.on
                THEN seen
                ELSE LET inFn == [seen EXCEPT !.calls =
                                     Append(called,
                                            Invocation("once", s.self, i, type,
                                                       payload, <<>>, <<>>, s.state))]
                         done == IF l.do = NoCall \/ payload = l.do.payload
                                 THEN inFn
                                 ELSE storeCall(inFn, l.do, fuel - 1)
                     IN  off(done, i)
          [] l.kind \in {"watch", "watchPath"} ->
                \* lines 149-158 and 401-410: the event is not looked at
                LET next == IF l.kind = "watch"
                            THEN Get(s.state, l.key)
                            ELSE getAtPath(s.state, l.key)
                    changed == hasChanged(next, l.prev)
                    \* fn(next): the callback is handed state[key] itself
                    handed == IF next.t = "object" /\ l.link = NoLink
                              THEN Assign(s.state, l.key, [next EXCEPT !.ext = TRUE])
                              ELSE s.state
                    fired == [s EXCEPT
                                !.listeners[i].prev = cloneValue(next),
                                !.calls = Append(called,
                                     Invocation("watch", s.self, i, type, next,
                                                <<>>, <<>>, s.state)),
                                !.state = handed]
                IN  IF ~changed
                    THEN [s EXCEPT !.calls = called]
                    ELSE IF l.link = NoLink
                    THEN fired
                    ELSE IF l.link.lock = 0
                    THEN linkFrom(fired, l.link, l.key, next, fuel - 1)
                    ELSE updateFrom(fired, l.link, l.key, next, fuel - 1)
          [] OTHER -> s

\* listeners.forEach(fn => fn({type, payload})), from the i-th on; an
\* exception ends it
forEachListener(s, i, type, payload, isState, fuel) ==
    IF i > Len(s.listeners) \/ s.thrown
    THEN s
    ELSE forEachListener(callListener(s, i, type, payload, isState, fuel),
                         i + 1, type, payload, isState, fuel)

\* watchAllFns.forEach(fn => fn(state, prevState)): every function is handed
\* the reference `state`
forEachWatchAll(s, type, prevState) ==
    [s EXCEPT !.calls = s.calls \o [i \in 1..Len(s.watchAllFns) |->
                                        Invocation("watchAll", s.self, i, type,
                                                   Undefined, s.state, prevState,
                                                   s.state)],
              !.held = s.held \/ Len(s.watchAllFns) > 0]

\* lines 91 and 478 after lines 90 and 477: the watchAll functions are
\* called unless a listener has thrown
thenWatchAll(s, type, prevState) ==
    IF s.thrown THEN s ELSE forEachWatchAll(s, type, prevState)

\* line 478: prevState is the state that has just been applied
thenWatchAllOfJump(s) == thenWatchAll(s, HistoryJump, s.state)

\* lines 87-92
notify(s, type, payload, fuel) ==
    thenWatchAll(forEachListener([s EXCEPT !.fanouts = s.fanouts + 1],
                                 1, type, payload, FALSE, fuel),
                 type, structuredClone(s.state))

\* dispatch that tells the listeners of set actions only
originalDispatch_SetOnly(s, type, payload, fuel) ==
    LET parts == split(type, "-")
        verb == parts[1]
        hasKey == Len(parts) >= 2 /\ Len(parts[2]) > 0
    IN  IF IsString(type) /\ verb = <<"set">> /\ hasKey
        THEN notify([s EXCEPT !.state = Assign(s.state, parts[2], payload)],
                    type, payload, fuel)
        ELSE s

\* store.__syncKeys of the store in focus
SyncKeysOf(s) ==
    IF s.self \in DOMAIN s.syncKeys THEN s.syncKeys[s.self] ELSE <<>>

\* String(storageEncrypt(val)) with storageEncrypt = JSON.stringify: the
\* string that setItem keeps
storageEncrypt(val) == stringifyValue(val)

RECURSIVE syncStorage(_, _, _)
\* lines 115-125, from the j-th path of __syncKeys on, with a storageDriver
\* that does not fail
syncStorage(s, key, j) ==
    IF j > Len(SyncKeysOf(s))
    THEN s
    ELSE LET path == SyncKeysOf(s)[j]
             base == split(path, ".")[1]
             val == getAtPath(s.state, path)
             set == [s EXCEPT !.storage = Assign(s.storage, path, storageEncrypt(val))]
         IN  syncStorage(IF key = base \/ key = path THEN set ELSE s, key, j + 1)

\* lines 108-130
originalDispatch(s, type, payload, fuel) ==
    LET parts == split(type, "-")
        verb == parts[1]
        \* `key && key.length`: the second part exists and is not ''
        hasKey == Len(parts) >= 2 /\ Len(parts[2]) > 0
        s1 == IF IsString(type) /\ verb = <<"set">> /\ hasKey
              THEN syncStorage([s EXCEPT !.state = Assign(s.state, parts[2], payload)],
                               parts[2], 1)
              ELSE s
    IN  notify(s1, type, payload, fuel)

\* dispatch that does not look at options.skipHistory
dispatch_IgnoresSkip(s, type, payload, skipHistory, fuel) ==
    LET prev == structuredClone(s.state)
        s0 == [s EXCEPT !.dispatches = Append(s.dispatches,
                            [store |-> s.self, type |-> type, payload |-> payload])]
        s1 == originalDispatch(s0, type, payload, fuel)
        changed == JSON_stringify(prev) # JSON_stringify(s1.state)
        s2 == IF changed THEN pushHistory(s1) ELSE s1
    IN  IF s1.thrown
        THEN [s1 EXCEPT !.ret = "throws"]
        ELSE [s2 EXCEPT !.ret = "undefined", !.changed = changed]

\* lines 525-530, with the store `s1` that originalDispatch has left; an
\* exception of a listener has left through line 524
recordChange(s1, prev, skipHistory) ==
    LET changed == JSON_stringify(prev) # JSON_stringify(s1.state)
        s2 == IF changed /\ ~skipHistory THEN pushHistory(s1) ELSE s1
    IN  IF s1.thrown
        THEN [s1 EXCEPT !.ret = "throws"]
        ELSE [s2 EXCEPT !.ret = "undefined", !.changed = changed]

\* lines 522-531
dispatch(s, type, payload, skipHistory, fuel) ==
    LET prev == structuredClone(s.state)
        s0 == [s EXCEPT !.dispatches = Append(s.dispatches,
                            [store |-> s.self, type |-> type, payload |-> payload])]
    IN  recordChange(originalDispatch(s0, type, payload, fuel), prev, skipHistory)

\* lines 253-264: the handler that autoBind gives an input bound to `path`
\* (without data-sync), when the input's value has become `value`
inputChanged(s, path, value, fuel) ==
    LET prevVal == getAtPath(s.state, path)
        set == setAtPath(s.state, path, value)
    IN  IF cloneValue(prevVal) = cloneValue(value)
        THEN s
        ELSE IF set.thrown
        THEN [s EXCEPT !.thrown = TRUE, !.ret = "throws"]
        ELSE dispatch([s EXCEPT !.state = set.doc],
                      <<"set", "-">> \o path, value, TRUE, fuel)

\* applyHistory that records the state it has applied as a new snapshot
applyHistory_Records(s, index, fuel) ==
    IF index < 0 \/ index >= 2 * Len(s.history)
    THEN s
    ELSE LET s1 == [s EXCEPT !.state = structuredClone(HistoryAt(s.history, index)),
                             !.fanouts = s.fanouts + 1]
             s2 == forEachListener(s1, 1, HistoryJump, Undefined, TRUE, fuel)
             s3 == IF s2.thrown THEN s2 ELSE forEachWatchAll(s2, HistoryJump, s2.state)
         IN  [s3 EXCEPT !.history = Append(s3.history, structuredClone(s3.state))]

\* lines 473-480
applyHistory(s, index, fuel) ==
    IF index < 0 \/ index >= 2 * Len(s.history)
    THEN s
    ELSE LET s1 == [s EXCEPT !.state = structuredClone(HistoryAt(s.history, index)),
                             !.fanouts = s.fanouts + 1]
         IN  thenWatchAllOfJump(
                 forEachListener(s1, 1, HistoryJump, Undefined, TRUE, fuel))

\* what a history operation returns: `value`, unless a listener has thrown
Returned(s, value) == [s EXCEPT !.ret = IF s.thrown THEN "throws" ELSE value]

\* undo that applies the snapshot before it moves the index
undo_AppliesCurrent(s, fuel) ==
    IF s.index <= 0
    THEN [s EXCEPT !.ret = "false"]
    ELSE LET s1 == applyHistory(s, s.index, fuel)
         IN  Returned([s1 EXCEPT !.index = s1.index - 2], "true")

\* undo whose guard lets index 0 through
undo_OffByOne(s, fuel) ==
    IF s.index < 0
    THEN [s EXCEPT !.ret = "false"]
    ELSE LET s1 == [s EXCEPT !.index = s.index - 2]
         IN  Returned(applyHistory(s1, s1.index, fuel), "true")

\* lines 486-491
undo(s, fuel) ==
    IF s.index <= 0
    THEN [s EXCEPT !.ret = "false"]
    ELSE LET s1 == [s EXCEPT !.index = s.index - 2]
         IN  Returned(applyHistory(s1, s1.index, fuel), "true")

\* lines 497-502
redo(s, fuel) ==
    IF s.index >= 2 * (Len(s.history) - 1)
    THEN [s EXCEPT !.ret = "false"]
    ELSE LET s1 == [s EXCEPT !.index = s.index + 2]
         IN  Returned(applyHistory(s1, s1.index, fuel), "true")

\* jumpTo that takes its argument for a number of steps back from the
\* current index
jumpTo_StepsBack(s, c, fuel) ==
    LET index == s.index - c.index
    IN  IF c.type = <<"number">> /\ index >= 0 /\ index < 2 * Len(s.history)
        THEN LET s1 == applyHistory(s, index, fuel)
             IN  IF s1.thrown
                 THEN [s1 EXCEPT !.ret = "throws"]
                 ELSE [s1 EXCEPT !.index = index, !.ret = "undefined"]
        ELSE [s EXCEPT !.ret = "undefined"]

\* line 514 after line 513; an exception of a listener leaves before it
setIndex(s, index) ==
    IF s.thrown
    THEN [s EXCEPT !.ret = "throws"]
    ELSE [s EXCEPT !.index = index, !.ret = "undefined"]

\* lines 511-516
jumpTo(s, c, fuel) ==
    IF c.type = <<"number">> /\ c.index >= 0 /\ c.index < 2 * Len(s.history)
    THEN setIndex(applyHistory(s, c.index, fuel), c.index)
    ELSE [s EXCEPT !.ret = "undefined"]

\* lines 32, 454-455, 517: the store after construction
createStore(initialState) ==
    LET st == structuredClone(initialState)
    IN  pushHistory(StoreOf(st, <<structuredClone(st)>>, 0, <<>>, <<>>, FALSE))

\* lines 214-219 (no computed property is defined)
get(s, key) == Get(s.state, key)

\* lines 290-295, called on the store in focus: otherStore gets a watcher
\* whose callback dispatches on this store; a one-way link has no `locked`
store_link(s, otherStore, key, transformFn) ==
    LET other == Focus(s, otherStore)
        watched == [other EXCEPT !.listeners =
                       Append(other.listeners,
                              LinkWatcher(key, cloneValue(Get(other.state, key)),
                                          s.self, 0, transformFn))]
    IN  Focus(watched, s.self)

\* lines 304-325, called on the store in focus: the link gets the next
\* `locked`, otherStore a watcher with updateFromOther, this store one with
\* updateFromThis
linkTwoWay(s, otherStore, key, transformFn, reverseFn) ==
    LET lock == Len(s.locked) + 1
        other == Focus(s, otherStore)
        watched == [other EXCEPT !.listeners =
                       Append(other.listeners,
                              LinkWatcher(key, cloneValue(Get(other.state, key)),
                                          s.self, lock, transformFn))]
        this == Focus(watched, s.self)
    IN  [this EXCEPT !.listeners =
                        Append(this.listeners,
                               LinkWatcher(key, cloneValue(Get(this.state, key)),
                                           otherStore, lock, reverseFn)),
                     !.locked = Append(this.locked, FALSE)]

\* an object in the hands of a caller: `ref` tells objects apart, `by` is
\* the function that returned it, `value` is what the object holds.  The store's own `state` is the object StateRef,
\* its array `__history` the object HistoryRef, and the n-th object that
\* structuredClone makes for a caller is the object n.
Object(ref, by, value) == [ref |-> ref, by |-> by, value |-> value]
StateRef == 0
HistoryRef == -1

\* getState that returns the state document itself
store_getState_Live(s, n) == Object(StateRef, "getState", s.state)

\* line 100: the n-th object made for a caller
store_getState(s, n) == Object(n, "getState", structuredClone(s.state))

\* line 505: the n-th object made for a caller, every snapshot copied
store_getHistory(s, n) ==
    Object(n, "__getHistory",
           [i \in DOMAIN s.history |-> structuredClone(s.history[i])])

-----------------------------------------------------------------------------
(* What the callers do *)

KeyX == <<"x">>
KeyY == <<"y">>
SetX == <<"set", "-", "x">>
SetY == <<"set", "-", "y">>
\* 'set-x-y', meant to set the key 'x-y'
SetXY == <<"set", "-", "x", "-", "y">>
\* 'set-'
SetNothing == <<"set", "-">>
Ping == <<"ping">>

Payloads == {Num(1), Num(2), Undefined, ObjB(1)}

InitialStates == {<<>>, <<[k |-> KeyX, v |-> Num(1)]>>}

DispatchInputs ==
    {DispatchCall(SetX, p, sk) : p \in Payloads, sk \in BOOLEAN}
    \cup {DispatchCall(ty, Num(1), sk) : ty \in {SetY, SetXY}, sk \in BOOLEAN}
    \cup {DispatchCall(ty, Num(1), FALSE) : ty \in {SetNothing, Ping, NotAString}}

\* the largest index given to jumpTo
MaxIndex == 2

JumpToInputs ==
    {JumpToCall("number", h) : h \in (-2)..(2 * MaxIndex)}
    \cup {JumpToCall("string", 2)}

ListenerInputs ==
    {Observer,
     Reenter(HistoryJump, DispatchCall(SetX, Num(2), FALSE)),
     Reenter(SetX, DispatchCall(SetY, Num(2), FALSE)),
     Reenter(Ping, UndoCall)}

\* the world with the first store in focus
Store ==
    [StoreOf(state, __history, __historyIndex, listeners, watchAllFns, held)
        EXCEPT !.others = others, !.locked = locked,
               !.syncKeys = __syncKeys, !.storage = storage]

\* a top-level call on the store `on`: what it was, what it found, what it
\* did and returned
Entry(on, c, s) ==
    [call |-> c, on |-> on, ret |-> s.ret, calls |-> s.calls,
     dispatches |-> s.dispatches, changed |-> s.changed,
     nested |-> s.nested, overflow |-> s.overflow,
     fanouts |-> s.fanouts, thrown |-> s.thrown,
     state |-> state, history |-> __history, index |-> __historyIndex,
     listeners |-> listeners, watchAllFns |-> watchAllFns, others |-> others]

\* the world w after a call on the store `on` becomes the state
CommitOn(on, c, w) ==
    LET s == Focus(w, 1)
    IN  /\ state' = s.state
        /\ __history' = s.history
        /\ __historyIndex' = s.index
        /\ listeners' = s.listeners
        /\ watchAllFns' = s.watchAllFns
        /\ held' = s.held
        /\ others' = s.others
        /\ locked' = s.locked
        /\ __syncKeys' = s.syncKeys
        /\ storage' = s.storage
        /\ log' = Append(log, Entry(on, c, s))
        /\ UNCHANGED limit

Commit(c, s) == CommitOn(1, c, s) /\ UNCHANGED returned

\* one store, just constructed, and callers that make `ops` calls and
\* register `ls` listeners of a kind
InitWith(ops, ls) ==
    \E initialState \in InitialStates :
        LET s == createStore(initialState)
        IN  /\ state = s.state
            /\ __history = s.history
            /\ __historyIndex = s.index
            /\ listeners = s.listeners
            /\ watchAllFns = s.watchAllFns
            /\ held = s.held
            /\ others = <<>>
            /\ locked = <<>>
            /\ __syncKeys = <<>>
            /\ storage = <<>>
            /\ returned = <<>>
            /\ log = <<>>
            /\ limit = [ops |-> ops, listeners |-> ls]

Init == InitWith(MaxOps, MaxListeners)

Dispatch ==
    /\ Len(log) < limit.ops
    /\ \E c \in DispatchInputs :
          Commit(c, dispatch(Store, c.type, c.payload, c.skipHistory, MaxDepth))

Undo ==
    /\ Len(log) < limit.ops
    /\ Commit(UndoCall, undo(Store, MaxDepth))

Redo ==
    /\ Len(log) < limit.ops
    /\ Commit(RedoCall, redo(Store, MaxDepth))

JumpTo ==
    /\ Len(log) < limit.ops
    /\ \E c \in JumpToInputs : Commit(c, jumpTo(Store, c, MaxDepth))

\* lines 137-140
Subscribe ==
    /\ Len(log) < limit.ops
    /\ Len(listeners) < limit.listeners
    /\ \E l \in ListenerInputs :
          Commit(Call("subscribe", <<>>, Undefined, FALSE, 0),
                 [Store EXCEPT !.listeners = Append(listeners, l)])

\* lines 147-159
Watch ==
    /\ Len(log) < limit.ops
    /\ Len(listeners) < limit.listeners
    /\ \E key \in {KeyX} :
          Commit(Call("watch", key, Undefined, FALSE, 0),
                 [Store EXCEPT !.listeners =
                     Append(listeners, Watcher(key, cloneValue(Get(state, key))))])

\* lines 165-168
WatchAll ==
    /\ Len(log) < limit.ops
    /\ Len(watchAllFns) < limit.listeners
    /\ Commit(Call("watchAll", <<>>, Undefined, FALSE, 0),
              [Store EXCEPT !.watchAllFns = Append(watchAllFns, Observer)])

\* store.get(key), lines 214-219: the caller is handed state[key] itself
GetKey ==
    /\ Len(log) < limit.ops
    /\ \E key \in {KeyX} :
          LET v == get(Store, key)
          IN  Commit(Call("get", key, Undefined, FALSE, 0),
                     [Store EXCEPT !.state =
                         IF v.t = "object"
                         THEN Assign(state, key, [v EXCEPT !.ext = TRUE])
                         ELSE state])

\* code outside the store writes to an object it was handed or has kept
\* (a payload, line 112; a watcher's value, line 156; get's result, line 218)
MutateObject ==
    /\ Len(log) < limit.ops
    /\ \E i \in DOMAIN state :
          /\ state[i].v.t = "object"
          /\ state[i].v.ext
          /\ Commit(Call("mutate", state[i].k, Undefined, FALSE, 0),
                    [Store EXCEPT !.state[i].v.d = <<[k |-> "b", n |-> 2]>>])

\* code outside the store writes to the `state` it was handed
\* (a watch-all listener, lines 90 and 478; the history-jump event, line 477)
MutateState ==
    /\ Len(log) < limit.ops
    /\ held
    /\ Commit(Call("mutate", <<>>, Undefined, FALSE, 0),
              [Store EXCEPT !.state = Assign(state, KeyX, Num(2))])

Next ==
    \/ Dispatch
    \/ Undo
    \/ Redo
    \/ JumpTo
    \/ Subscribe
    \/ Watch
    \/ WatchAll
    \/ GetKey
    \/ MutateObject
    \/ MutateState

Spec == Init /\ [][Next]_vars

-----------------------------------------------------------------------------
(* Callers that read the store and write to what they were returned *)

\* store.getState(), line 100
GetState ==
    /\ Len(log) < limit.ops
    /\ returned' = Append(returned, store_getState(Store, Len(returned) + 1))
    /\ CommitOn(1, Call("getState", <<>>, Undefined, FALSE, 0), Store)

\* store.__getHistory(), line 505
GetHistory ==
    /\ Len(log) < limit.ops
    /\ returned' = Append(returned, store_getHistory(Store, Len(returned) + 1))
    /\ CommitOn(1, Call("__getHistory", <<>>, Undefined, FALSE, 0), Store)

\* what a caller's write does to a document, and to an array of documents
Scribble(doc) == Assign(doc, KeyX, Num(2))
ScribbleFirst(docs) == [docs EXCEPT ![1] = Scribble(docs[1])]

\* a caller writes to an object that getState or __getHistory returned: the
\* write reaches every holder of that object, the store too if the object
\* is one of its own
MutateReturned ==
    /\ Len(log) < limit.ops
    /\ \E i \in DOMAIN returned :
          LET o == returned[i]
              written == IF o.by = "getState"
                         THEN Scribble(o.value)
                         ELSE ScribbleFirst(o.value)
          IN  /\ returned' = [j \in DOMAIN returned |->
                                 IF returned[j].ref = o.ref
                                 THEN Object(o.ref, o.by, written)
                                 ELSE returned[j]]
              /\ CommitOn(1, Call("mutateReturned", <<>>, Undefined, FALSE, i),
                          [Store EXCEPT
                              !.state = IF o.ref = StateRef THEN written ELSE state,
                              !.history = IF o.ref = HistoryRef THEN written
                                          ELSE __history])

NextCopies ==
    \/ Dispatch
    \/ Undo
    \/ GetState
    \/ GetHistory
    \/ MutateReturned

\* callers that dispatch, undo, read the state and the history, and write
\* to what they have read
SpecCopies == InitWith(MaxOps, 0) /\ [][NextCopies]_vars

-----------------------------------------------------------------------------
(* Callers that watch a key and a path *)

\* 'x.b'
PathXB == <<"x", ".", "b">>

\* the number of top-level calls of a run of the watching callers
MaxWatchOps == 5
\* the number of watchers they register
MaxWatchers == 2

\* lines 399-411
WatchPath ==
    /\ Len(log) < limit.ops
    /\ Len(listeners) < limit.listeners
    /\ \E path \in {PathXB} :
          Commit(Call("watchPath", path, Undefined, FALSE, 0),
                 [Store EXCEPT !.listeners =
                     Append(listeners,
                            PathWatcher(path, cloneValue(getAtPath(state, path))))])

WatchedInputs ==
    {DispatchCall(SetX, p, FALSE) : p \in {Num(1), Num(2), ObjB(1)}}
    \cup {DispatchCall(Ping, Num(1), FALSE)}

\* store.dispatch of a value for the watched key, or of an unknown action
DispatchWatched ==
    /\ Len(log) < limit.ops
    /\ \E c \in WatchedInputs :
          Commit(c, dispatch(Store, c.type, c.payload, c.skipHistory, MaxDepth))

NextWatch ==
    \/ DispatchWatched
    \/ Undo
    \/ Watch
    \/ WatchPath
    \/ MutateObject

\* callers that watch the key x and the path x.b, set x, undo, and write to
\* the object they have set x to
SpecWatch == InitWith(MaxWatchOps, MaxWatchers) /\ [][NextWatch]_vars

-----------------------------------------------------------------------------
(* Callers with a bound input *)

\* the number of top-level calls of a run of the callers with a bound input
MaxBindOps == 3

\* the object {b: 1, c: 1}
ObjBC == Obj(<<[k |-> "b", n |-> 1], [k |-> "c", n |-> 1]>>, FALSE)

\* 'set-x.b'
SetXB == <<"set", "-", "x", ".", "b">>

\* one store, just constructed: x is missing, a number or an object
InitBind ==
    \E x \in {Undefined, Num(1), ObjBC} :
        LET initialState == IF x = Undefined
                            THEN <<[k |-> KeyY, v |-> Num(1)]>>
                            ELSE <<[k |-> KeyX, v |-> x], [k |-> KeyY, v |-> Num(1)]>>
            s == createStore(initialState)
        IN  /\ state = s.state
            /\ __history = s.history
            /\ __historyIndex = s.index
            /\ listeners = s.listeners
            /\ watchAllFns = s.watchAllFns
            /\ held = s.held
            /\ others = <<>>
            /\ locked = <<>>
            /\ __syncKeys = <<>>
            /\ storage = <<>>
            /\ returned = <<>>
            /\ log = <<>>
            /\ limit = [ops |-> MaxBindOps, listeners |-> 0]

\* the input bound to x.b by data-model="x.b" gets a new value
InputChanged ==
    /\ Len(log) < limit.ops
    /\ \E value \in {Num(1), Num(2)} :
          Commit(Call("input", PathXB, value, TRUE, 0),
                 inputChanged(Store, PathXB, value, MaxDepth))

\* store.dispatch('set-x.b', v), and dispatches of set-x and set-y
DispatchPath ==
    /\ Len(log) < limit.ops
    /\ \E c \in {DispatchCall(SetXB, Num(2), FALSE),
                  DispatchCall(SetX, ObjB(1), FALSE),
                  DispatchCall(SetY, Num(2), FALSE)} :
          Commit(c, dispatch(Store, c.type, c.payload, c.skipHistory, MaxDepth))

NextBind ==
    \/ InputChanged
    \/ DispatchPath
    \/ Undo

\* callers that dispatch and have an input bound to the path x.b
SpecBind == InitBind /\ [][NextBind]_vars

-----------------------------------------------------------------------------
(* Callers of a store that is kept in the storage *)

\* createStore({initialState, syncStorage: ['x']}) with an empty storage:
\* nothing is read from it (lines 54-63)
InitSync ==
    \E initialState \in InitialStates :
        LET s == createStore(initialState)
        IN  /\ state = s.state
            /\ __history = s.history
            /\ __historyIndex = s.index
            /\ listeners = s.listeners
            /\ watchAllFns = s.watchAllFns
            /\ held = s.held
            /\ others = <<>>
            /\ locked = <<>>
            /\ __syncKeys = <<<<KeyX>>>>
            /\ storage = <<>>
            /\ returned = <<>>
            /\ log = <<>>
            /\ limit = [ops |-> MaxOps, listeners |-> 0]

NextSync ==
    \/ Dispatch
    \/ Undo
    \/ Redo
    \/ JumpTo

\* callers that dispatch and navigate the history of a store whose key x is
\* kept in the storage
SpecSync == InitSync /\ [][NextSync]_vars

-----------------------------------------------------------------------------
(* Callers that listen once *)

\* the number of top-level calls of a run of the callers that listen once
MaxOnceOps == 3
\* the number of functions they register
MaxOnceListeners == 2

\* store.once('ping', fn): fn does nothing, or it is
\* p => { if (p !== 2) store.dispatch('ping', 2) }
ListenOnce ==
    /\ Len(log) < limit.ops
    /\ Len(listeners) < limit.listeners
    /\ \E do \in {NoCall, DispatchCall(Ping, Num(2), FALSE)} :
          Commit(Call("once", Ping, Undefined, FALSE, 0),
                 [Store EXCEPT !.listeners = Append(listeners, Once(Ping, do))])

\* store.subscribe with a function that dispatches 'ping' when it is told of
\* a dispatch of 'set-x'
SubscribeRelay ==
    /\ Len(log) < limit.ops
    /\ Len(listeners) < limit.listeners
    /\ Commit(Call("subscribe", <<>>, Undefined, FALSE, 0),
              [Store EXCEPT !.listeners =
                  Append(listeners,
                         Reenter(SetX, DispatchCall(Ping, Num(1), FALSE)))])

NextOnce ==
    \/ Dispatch
    \/ ListenOnce
    \/ SubscribeRelay

\* callers that listen once for 'ping' and dispatch
SpecOnce == InitWith(MaxOnceOps, MaxOnceListeners) /\ [][NextOnce]_vars

-----------------------------------------------------------------------------
(* Callers that link stores *)

KeyTheme == <<"theme">>
SetTheme == <<"set", "-", "theme">>

\* the number of top-level calls of a run of the linking callers
MaxLinkOps == 3
\* the number of stores they create
MaxStores == 2
\* the number of links they make
MaxLinks == 2

StoreIds == 1..Len(others)

Themes == {Num(1), Num(2)}

\* the transformFn and reverseFn given to linkTwoWay
LinkFunctions ==
    {[transformFn |-> "none", reverseFn |-> "none"],
     [transformFn |-> "invert", reverseFn |-> "identity"]}

\* the stores are linked in a ring: each one to the next, the last one to the
\* first
NextStore(store) == (store % Len(others)) + 1

\* MaxStores stores, each just constructed and given one listener with
\* subscribe; the first one may start with a theme
InitLink ==
    \E initialState \in {<<>>, <<[k |-> KeyTheme, v |-> Num(1)]>>} :
        LET s == createStore(initialState)
            o == [createStore(<<>>) EXCEPT !.listeners = <<Observer>>]
        IN  /\ state = s.state
            /\ __history = s.history
            /\ __historyIndex = s.index
            /\ listeners = <<Observer>>
            /\ watchAllFns = s.watchAllFns
            /\ held = s.held
            /\ others = [j \in 1..MaxStores |->
                            IF j = 1 THEN InFocus ELSE PerStore(o)]
            /\ locked = <<>>
            /\ __syncKeys = <<>>
            /\ storage = <<>>
            /\ returned = <<>>
            /\ log = <<>>
            /\ limit = [ops |-> MaxLinkOps, listeners |-> 0]

\* store.linkTwoWay(otherStore, 'theme', transformFn, reverseFn)
LinkTwoWay ==
    /\ Len(log) < limit.ops
    /\ Len(locked) < MaxLinks
    /\ \E store \in StoreIds, fns \in LinkFunctions :
          /\ CommitOn(store,
                      Call("linkTwoWay", KeyTheme, Undefined, FALSE, NextStore(store)),
                      linkTwoWay(Focus(Store, store), NextStore(store), KeyTheme,
                                 fns.transformFn, fns.reverseFn))
          /\ UNCHANGED returned

\* store.dispatch('set-theme', v) on one of the stores
DispatchOn ==
    /\ Len(log) < limit.ops
    /\ \E store \in StoreIds, v \in Themes :
          /\ CommitOn(store, DispatchCall(SetTheme, v, FALSE),
                      dispatch(Focus(Store, store), SetTheme, v, FALSE, MaxDepth))
          /\ UNCHANGED returned

\* store.undo() on one of the stores
UndoOn ==
    /\ Len(log) < limit.ops
    /\ \E store \in StoreIds :
          /\ CommitOn(store, UndoCall, undo(Focus(Store, store), MaxDepth))
          /\ UNCHANGED returned

\* store.redo() on one of the stores
RedoOn ==
    /\ Len(log) < limit.ops
    /\ \E store \in StoreIds :
          /\ CommitOn(store, RedoCall, redo(Focus(Store, store), MaxDepth))
          /\ UNCHANGED returned

\* store.jumpTo(0) on one of the stores
JumpToOn ==
    /\ Len(log) < limit.ops
    /\ \E store \in StoreIds :
          /\ CommitOn(store, JumpToCall("number", 0),
                      jumpTo(Focus(Store, store), JumpToCall("number", 0), MaxDepth))
          /\ UNCHANGED returned

NextLink ==
    \/ LinkTwoWay
    \/ DispatchOn
    \/ UndoOn
    \/ RedoOn
    \/ JumpToOn

\* callers that link stores two ways on the key theme, set the theme of a
\* store and navigate its history
SpecLink == InitLink /\ [][NextLink]_vars

\* store.link(otherStore, 'theme')
LinkOneWay ==
    /\ Len(log) < limit.ops
    /\ \E store \in StoreIds :
          /\ CommitOn(store,
                      Call("link", KeyTheme, Undefined, FALSE, NextStore(store)),
                      store_link(Focus(Store, store), NextStore(store), KeyTheme,
                                 "none"))
          /\ UNCHANGED returned

\* store.dispatch('set-theme', v) on one of the stores, NaN among the values
DispatchNumberOn ==
    /\ Len(log) < limit.ops
    /\ \E store \in StoreIds, v \in Themes \cup {NaN} :
          /\ CommitOn(store, DispatchCall(SetTheme, v, FALSE),
                      dispatch(Focus(Store, store), SetTheme, v, FALSE, MaxDepth))
          /\ UNCHANGED returned

NextMutual ==
    \/ LinkOneWay
    \/ DispatchNumberOn

\* callers that link stores one way on the key theme and set the theme of a
\* store
SpecMutual == InitLink /\ [][NextMutual]_vars

\* store.subscribe on one of the stores, with a function that throws
SubscribeThrowerOn ==
    /\ Len(log) < limit.ops
    /\ \E store \in StoreIds :
          /\ CommitOn(store, Call("subscribe", <<>>, Undefined, FALSE, 0),
                      LET s == Focus(Store, store)
                      IN  [s EXCEPT !.listeners = Append(s.listeners, Thrower)])
          /\ UNCHANGED returned

NextLinkThrow ==
    \/ LinkTwoWay
    \/ DispatchOn
    \/ UndoOn
    \/ SubscribeThrowerOn

\* callers that link stores two ways and register listeners that throw
SpecLinkThrow == InitLink /\ [][NextLinkThrow]_vars

-----------------------------------------------------------------------------
(* Callers whose listeners throw *)

\* store.subscribe(fn), lines 137-140, with a function that throws or with
\* one that does not
SubscribeThrower ==
    /\ Len(log) < limit.ops
    /\ Len(listeners) < limit.listeners
    /\ \E l \in {Thrower, Observer} :
          Commit(Call("subscribe", <<>>, Undefined, FALSE, 0),
                 [Store EXCEPT !.listeners = Append(listeners, l)])

NextThrow ==
    \/ Dispatch
    \/ Undo
    \/ Redo
    \/ JumpTo
    \/ SubscribeThrower

\* callers that dispatch and navigate the history of a store some of whose
\* listeners throw
SpecThrow == InitWith(MaxOps, MaxListeners) /\ [][NextThrow]_vars

-----------------------------------------------------------------------------
(* Reading the store and the log *)

\* store.getState(), line 100
getState == structuredClone(state)

\* the last top-level call
Last == log[Len(log)]

\* i is an index of the array: an integer in [0, length-1]
IsIndexOf(i, hist) == IsInteger(i) /\ 0 <= i /\ i <= 2 * (Len(hist) - 1)

\* the top-level call e was a dispatch that changed the state and did not
\* skip the history
IsRecordedChange(e) ==
    e.call.name = "dispatch" /\ ~e.call.skipHistory /\ e.changed

\* no listener called back into the store during the top-level call e
Plain(e) == e.nested = 0

\* the key that the action type 'set-<key>' names
KeyOf(type) == SubSeq(type, 3, Len(type))

IsSetAction(type) ==
    IsString(type) /\ Len(type) >= 3 /\ type[1] = "set" /\ type[2] = "-"

-----------------------------------------------------------------------------
(* C1 *)

\* C1: in every reachable state the current index is an index of the
\* history: 0 <= currentIndex <= length(history) - 1.
C1_IndexInRange == IsIndexOf(__historyIndex, __history)

-----------------------------------------------------------------------------
(* C2 *)

\* C2: right after construction the history holds exactly one snapshot, the
\* initial state, and the current index is 0; so undo() on a fresh store
\* returns false.
C2_FreshHistory ==
    /\ Len(log) = 0 =>
          /\ Len(__history) = 1
          /\ __history[1] = getState
          /\ __historyIndex = 0
    /\ (Len(log) = 1 /\ Last.call.name = "undo") => Last.ret = "false"

-----------------------------------------------------------------------------
(* C3 *)

\* C3: for every non-empty key k, also one that holds '-' or '.', right
\* after dispatch('set-k', v) returns, getState().k equals v.
C3_SetThenRead ==
    (/\ Len(log) > 0
     /\ Last.call.name = "dispatch"
     /\ Plain(Last)
     /\ IsSetAction(Last.call.type))
    => Get(getState, KeyOf(Last.call.type)) = cloneValue(Last.call.payload)

-----------------------------------------------------------------------------
(* C4 *)

\* C4, as claimed: after a change-producing dispatch without skipHistory,
\* undo() restores exactly the state the store had right before that
\* dispatch, also when that state was reached by skipHistory dispatches, and
\* a redo() right after that undo() restores the state after the dispatch.
\* (Read for a store whose index is an index of its history and whose
\* listeners do not call back into the store; two states are compared as the
\* store compares them, by their JSON text.)
C4_UndoRestoresPriorState ==
    LET n == Len(log)
    IN  /\ (/\ n >= 2
            /\ log[n].call.name = "undo" /\ Plain(log[n])
            /\ IsRecordedChange(log[n - 1]) /\ Plain(log[n - 1])
            /\ IsIndexOf(log[n - 1].index, log[n - 1].history))
           => JSON_stringify(state) = JSON_stringify(log[n - 1].state)
        /\ (/\ n >= 3
            /\ log[n].call.name = "redo" /\ Plain(log[n])
            /\ log[n - 1].call.name = "undo" /\ Plain(log[n - 1])
            /\ IsRecordedChange(log[n - 2]) /\ Plain(log[n - 2])
            /\ IsIndexOf(log[n - 2].index, log[n - 2].history))
           => JSON_stringify(state) = JSON_stringify(log[n - 1].state)

\* C4, amended: after a change-producing dispatch without skipHistory made
\* at index i, undo() returns true and puts the index back to i.  When i is
\* an index of the history, the state becomes history[i], the snapshot that
\* was current before the dispatch (the state before the dispatch only if
\* that state had been recorded), and a redo() right after that undo()
\* returns true and restores exactly the state after the dispatch.  When i
\* is not an index of the history (C1), undo() and redo() leave the state
\* empty or as the dispatch made it.  Listeners that call back into the
\* store are not covered.
C4_UndoRestoresSnapshot ==
    LET n == Len(log)
    IN  /\ (/\ n >= 2
            /\ log[n].call.name = "undo" /\ Plain(log[n])
            /\ IsRecordedChange(log[n - 1]) /\ Plain(log[n - 1]))
           => /\ log[n].ret = "true"
              /\ __historyIndex = log[n - 1].index
              /\ IF IsIndexOf(log[n - 1].index, log[n - 1].history)
                 THEN /\ getState
                           = HistoryAt(log[n - 1].history, log[n - 1].index)
                      /\ (structuredClone(log[n - 1].state)
                            = HistoryAt(log[n - 1].history, log[n - 1].index)
                          => getState = structuredClone(log[n - 1].state))
                 ELSE getState \in {<<>>, structuredClone(log[n].state)}
        /\ (/\ n >= 3
            /\ log[n].call.name = "redo" /\ Plain(log[n])
            /\ log[n - 1].call.name = "undo" /\ Plain(log[n - 1])
            /\ IsRecordedChange(log[n - 2]) /\ Plain(log[n - 2]))
           => IF IsIndexOf(log[n - 2].index, log[n - 2].history)
              THEN /\ log[n].ret = "true"
                   /\ getState = structuredClone(log[n - 1].state)
              ELSE getState \in {<<>>, structuredClone(log[n - 1].state)}

\* a dispatch that changed the state, its undo and its redo have been made
C4_Witness ==
    /\ Len(log) = 3
    /\ log[3].call.name = "redo" /\ Plain(log[3])
    /\ log[2].call.name = "undo" /\ Plain(log[2])
    /\ IsRecordedChange(log[1]) /\ Plain(log[1])
    /\ structuredClone(log[1].state) # structuredClone(log[2].state)

-----------------------------------------------------------------------------
(* C5 *)

\* the top-level call e was a change-producing dispatch without skipHistory
\* made while the index was an index i < length-1 of the history
IsBranchingDispatch(e) ==
    /\ IsRecordedChange(e) /\ Plain(e)
    /\ IsIndexOf(e.index, e.history)
    /\ e.index < 2 * (Len(e.history) - 1)

\* C5: a change-producing dispatch without skipHistory made while
\* currentIndex = i < length-1 leaves history[0..i] as it was, discards every
\* snapshot after i, appends one snapshot equal to the new state and makes
\* i+1, the new last index, current; a redo() then returns false.
\* (The dispatch of the claim is one during which no listener calls back
\* into the store.)
C5_PushTruncates ==
    LET n == Len(log)
    IN  /\ (n >= 1 /\ IsBranchingDispatch(log[n]))
           => /\ __history = Append(SubSeq(log[n].history, 1, (log[n].index \div 2) + 1),
                                    getState)
              /\ __historyIndex = log[n].index + 2
              /\ __historyIndex = 2 * (Len(__history) - 1)
        /\ (n >= 2 /\ log[n].call.name = "redo" /\ IsBranchingDispatch(log[n - 1]))
           => /\ log[n].ret = "false"
              /\ __history = log[n].history

\* a dispatch has discarded a snapshot that differs from the one it appended
C5_Witness ==
    /\ Len(log) >= 1
    /\ IsBranchingDispatch(Last)
    /\ Len(__history) <= Len(Last.history)
    /\ Last.history[Len(Last.history)] # __history[Len(__history)]

-----------------------------------------------------------------------------
(* C6 *)

\* C6: a dispatch with skipHistory = true that changes the state changes
\* getState() and leaves the history (its length, every snapshot, any redo
\* tail) and the current index as they were.
\* (The dispatch of the claim is one during which no listener calls back
\* into the store.)
C6_SkipHistoryLeavesHistory ==
    (/\ Len(log) >= 1
     /\ Last.call.name = "dispatch" /\ Last.call.skipHistory /\ Plain(Last)
     /\ getState # structuredClone(Last.state))
    => /\ __history = Last.history
       /\ __historyIndex = Last.index

\* a skipHistory dispatch has changed the state of a store that has a redo
\* tail
C6_Witness ==
    /\ Len(log) >= 1
    /\ Last.call.name = "dispatch" /\ Last.call.skipHistory /\ Plain(Last)
    /\ Last.changed
    /\ __historyIndex < 2 * (Len(__history) - 1)

-----------------------------------------------------------------------------
(* C7 *)

\* the top-level call e was an undo() made at index 0
IsUndoAtStart(e) == e.call.name = "undo" /\ e.index = 0

\* the top-level call e was a redo() made at the last index
IsRedoAtEnd(e) == e.call.name = "redo" /\ e.index = 2 * (Len(e.history) - 1)

\* C7: undo() at currentIndex = 0 and redo() at currentIndex = length-1
\* return false, leave the state document, the history and the current index
\* as they were and invoke no listener or watcher.
C7_NothingToUndoOrRedo ==
    (Len(log) >= 1 /\ (IsUndoAtStart(Last) \/ IsRedoAtEnd(Last)))
    => /\ Last.ret = "false"
       /\ state = Last.state
       /\ __history = Last.history
       /\ __historyIndex = Last.index
       /\ Last.calls = <<>>

\* an undo() has been made at index 0 of a store whose listener the undo()
\* before it had notified
C7_Witness ==
    /\ Len(log) >= 2
    /\ IsUndoAtStart(Last)
    /\ log[Len(log) - 1].calls # <<>>
    /\ Len(listeners) > 0

-----------------------------------------------------------------------------
(* C8 *)

\* the index given to jumpTo is an index of the history
IsValidJump(e) ==
    e.call.type = <<"number">> /\ IsIndexOf(e.call.index, e.history)

\* C8: jumpTo(i) with an invalid index (i < 0, i >= length, or no integer
\* index, such as 1.5) reports failure by a boolean return value and leaves
\* the state document, the history and the current index as they were; with
\* a valid i it makes the state equal to history[i] and currentIndex = i.
C8_JumpToChecksIndex ==
    (Len(log) >= 1 /\ Last.call.name = "jumpTo" /\ Plain(Last))
    => IF IsValidJump(Last)
       THEN /\ getState = HistoryAt(Last.history, Last.call.index)
            /\ __historyIndex = Last.call.index
       ELSE /\ Last.ret = "false"
            /\ state = Last.state
            /\ __history = Last.history
            /\ __historyIndex = Last.index

-----------------------------------------------------------------------------
(* C9 *)

IsNavigation(e) == e.call.name \in {"undo", "redo", "jumpTo"}

\* C9, as claimed: undo(), redo() and jumpTo(i) never change the history,
\* whatever listeners, watchers and links are registered.
C9_NavigationKeepsHistory ==
    (Len(log) >= 1 /\ IsNavigation(Last)) => __history = Last.history

\* C9, amended: undo(), redo() and jumpTo(i) never change the history
\* themselves: with any listeners and watchers registered, the history is the
\* same after the call as before it unless a listener dispatches on the same
\* store while it is notified of the history-jump; only a dispatch's push
\* grows or truncates the sequence.
C9_NavigationItselfKeepsHistory ==
    (Len(log) >= 1 /\ IsNavigation(Last) /\ Plain(Last))
    => __history = Last.history

\* a navigation has replaced the state and notified a listener
C9_Witness ==
    /\ Len(log) >= 1
    /\ IsNavigation(Last) /\ Plain(Last)
    /\ Last.calls # <<>>
    /\ getState # structuredClone(Last.state)

-----------------------------------------------------------------------------
(* C10 *)

\* C10: every value handed to code outside the store is a copy (the state
\* given to watch-all listeners, the value given to watch callbacks, the
\* result of get(key), the payload of the history-jump event, a payload the
\* caller keeps), so writing to any of them never changes what getState()
\* returns.
C10_HandedOutValuesAreCopies ==
    (Len(log) >= 1 /\ Last.call.name = "mutate")
    => getState = structuredClone(Last.state)

-----------------------------------------------------------------------------
(* C11 *)

\* the objects that getState has returned
StateObjects == {i \in DOMAIN returned : returned[i].by = "getState"}

\* C11: two calls to getState() never return the same object, and writing to
\* an object returned by getState() or by __getHistory() changes neither the
\* state document nor any snapshot of the history.
C11_ReturnedObjectsAreCopies ==
    /\ \A i, j \in StateObjects : i # j => returned[i].ref # returned[j].ref
    /\ \A i \in DOMAIN returned : returned[i].ref \notin {StateRef, HistoryRef}
    /\ (Len(log) >= 1 /\ Last.call.name = "mutateReturned")
       => /\ state = Last.state
          /\ __history = Last.history

\* a caller has written to one of several returned objects, and the write
\* has made its content differ from the store's
C11_Witness ==
    /\ Len(log) >= 1 /\ Last.call.name = "mutateReturned"
    /\ IF returned[Last.call.index].by = "getState"
       THEN returned[Last.call.index].value # state
       ELSE returned[Last.call.index].value # __history
    /\ \E i \in DOMAIN returned : i # Last.call.index

-----------------------------------------------------------------------------
(* C12 *)

\* the invocations of watch-all listeners that the top-level call e made
WatchAllCalls(e) ==
    {k \in DOMAIN e.calls : e.calls[k].who = "watchAll"}

\* C12: on every dispatch each watch-all listener is called with nextState
\* equal to the state after the dispatch's mutation and prevState equal to
\* the state as it was before that mutation.
\* (The dispatch is one during which no listener calls back into the store;
\* two states are compared by their JSON text.)
C12_WatchAllGetsPrevAndNext ==
    (Len(log) >= 1 /\ Last.call.name = "dispatch" /\ Plain(Last))
    => \A k \in WatchAllCalls(Last) :
          /\ JSON_stringify(Last.calls[k].next) = JSON_stringify(state)
          /\ JSON_stringify(Last.calls[k].prev) = JSON_stringify(Last.state)

-----------------------------------------------------------------------------
(* C13 *)

\* the invocations of the i-th global listener that the top-level call e made
ListenerCalls(e, i) ==
    {k \in DOMAIN e.calls : e.calls[k].who = "listener" /\ e.calls[k].i = i}

\* the top-level call e was a dispatch whose name is not of the form
\* set-<non-empty key>
IsUnknownDispatch(e) ==
    e.call.name = "dispatch" /\ ~IsSetAction(e.call.type)

\* C13: a dispatch whose name is not of the form set-<non-empty key> changes
\* nothing in the state document and pushes no snapshot, and every registered
\* global listener is still invoked with the action's name and payload.
\* (The dispatch is one during which no listener calls back into the store.)
C13_UnknownActionIsBroadcast ==
    (Len(log) >= 1 /\ IsUnknownDispatch(Last) /\ Plain(Last))
    => /\ getState = structuredClone(Last.state)
       /\ __history = Last.history
       /\ __historyIndex = Last.index
       /\ \A i \in DOMAIN Last.listeners :
             \E k \in ListenerCalls(Last, i) :
                /\ Last.calls[k].type = Last.call.type
                /\ Last.calls[k].arg = Last.call.payload

\* an unknown action has been dispatched on a store that has a listener and
\* more than its two first snapshots
C13_Witness ==
    /\ Len(log) >= 1 /\ IsUnknownDispatch(Last) /\ Plain(Last)
    /\ Last.call.type = Ping
    /\ Len(Last.listeners) >= 1
    /\ Len(__history) > 2

-----------------------------------------------------------------------------
(* C14 *)

IsWatcher(l) == l.kind \in {"watch", "watchPath"}

\* the value that the watcher l watches in the document doc
WatchedValue(doc, l) ==
    IF l.kind = "watch" THEN Get(doc, l.key) ELSE getAtPath(doc, l.key)

\* the invocations of the callback of the i-th listener, a watcher, that the
\* top-level call e made
Fired(e, i) ==
    {k \in DOMAIN e.calls : e.calls[k].who = "watch" /\ e.calls[k].i = i}

\* the top-level call that registered the i-th listener
Registration(i) ==
    CHOOSE n \in DOMAIN log :
        /\ log[n].call.name \in {"watch", "watchPath", "subscribe"}
        /\ Len(log[n].listeners) = i - 1

RECURSIVE LastDelivered(_, _)
\* the value that the callback of the i-th listener was last given by the
\* calls log[1..n], or the watched value at its registration if none has
\* invoked it
LastDelivered(i, n) ==
    IF n <= Registration(i)
    THEN WatchedValue(log[Registration(i)].state, listeners[i])
    ELSE IF Fired(log[n], i) # {}
    THEN LET k == CHOOSE m \in Fired(log[n], i) :
                      \A o \in Fired(log[n], i) : o <= m
         IN  log[n].calls[k].arg
    ELSE LastDelivered(i, n - 1)

\* two values differ: by identity for primitives, by content for composites
Differs(a, b) == cloneValue(a) # cloneValue(b)

\* C14: a watcher registered with watch(key, fn), or with watchPath(path, fn),
\* is invoked during a notification if and only if the watched value after
\* the mutation differs from the value the watcher last delivered, or from
\* the value at its registration if it has not fired yet; each watcher keeps
\* its own last-seen value.
C14_WatcherFiresIffChanged ==
    Len(log) >= 1 =>
    \A i \in DOMAIN Last.listeners :
        IsWatcher(listeners[i]) =>
            LET now == WatchedValue(state, listeners[i])
                before == LastDelivered(i, Len(log) - 1)
            IN  IF Last.fanouts = 0
                THEN Fired(Last, i) = {}
                ELSE /\ Fired(Last, i) # {} <=> Differs(now, before)
                     /\ Cardinality(Fired(Last, i)) <= 1
                     /\ \A k \in Fired(Last, i) :
                           ~Differs(Last.calls[k].arg, now)

\* a notification has invoked one of two watchers of the same key and not
\* the other
C14_Witness ==
    /\ Len(log) >= 1 /\ Last.fanouts = 1
    /\ \E i, j \in DOMAIN Last.listeners :
          /\ listeners[i].kind = "watch" /\ listeners[j].kind = "watch"
          /\ listeners[i].key = listeners[j].key
          /\ Fired(Last, i) # {}
          /\ Fired(Last, j) = {}

-----------------------------------------------------------------------------
(* C15 *)

\* the calls log[n], log[n+1], log[n+2] are the dispatches set-x=1, set-x=1,
\* set-x=2
IsOneOneTwo(n) ==
    /\ n >= 1 /\ n + 2 <= Len(log)
    /\ log[n].call = DispatchCall(SetX, Num(1), FALSE)
    /\ log[n + 1].call = DispatchCall(SetX, Num(1), FALSE)
    /\ log[n + 2].call = DispatchCall(SetX, Num(2), FALSE)

\* the i-th listener was registered with watch('x', fn) before the call
\* log[n]
IsWatcherOfXBefore(i, n) ==
    /\ i \in DOMAIN log[n].listeners
    /\ log[n].listeners[i].kind = "watch"
    /\ log[n].listeners[i].key = KeyX

\* the values that the call log[n] gave to the callback of the i-th listener
ValuesGiven(i, n) == {log[n].calls[k].arg : k \in Fired(log[n], i)}

\* C15, as claimed: for a watcher registered with watch('x', fn) before the
\* sequence starts, the dispatches set-x=1, set-x=1, set-x=2 invoke fn
\* exactly once in total, with the value 2.
C15_OneOneTwoFiresOnce ==
    \A n \in DOMAIN log : \A i \in DOMAIN listeners :
        (IsOneOneTwo(n) /\ IsWatcherOfXBefore(i, n))
        => /\ Cardinality(Fired(log[n], i)) + Cardinality(Fired(log[n + 1], i))
                + Cardinality(Fired(log[n + 2], i)) = 1
           /\ ValuesGiven(i, n + 2) = {Num(2)}

\* C15, amended: for a watcher registered with watch('x', fn) before the
\* sequence starts, the duplicate set-x=1 never invokes fn and set-x=2
\* invokes it once, with the value 2; the first set-x=1 invokes fn, with the
\* value 1, unless x is already 1 when the sequence starts.  So fn is invoked
\* once in total when x is 1 at the start, and twice otherwise.
C15_OneOneTwoFiresOnChange ==
    \A n \in DOMAIN log : \A i \in DOMAIN listeners :
        (IsOneOneTwo(n) /\ IsWatcherOfXBefore(i, n))
        => /\ Cardinality(Fired(log[n], i))
                = (IF Get(log[n].state, KeyX) = Num(1) THEN 0 ELSE 1)
           /\ ValuesGiven(i, n) \subseteq {Num(1)}
           /\ Fired(log[n + 1], i) = {}
           /\ Cardinality(Fired(log[n + 2], i)) = 1
           /\ ValuesGiven(i, n + 2) = {Num(2)}

\* the three dispatches have been made on a store whose x was 1 and was
\* watched
C15_Witness ==
    \E n \in DOMAIN log : \E i \in DOMAIN listeners :
        /\ IsOneOneTwo(n) /\ IsWatcherOfXBefore(i, n)
        /\ Get(log[n].state, KeyX) = Num(1)

-----------------------------------------------------------------------------
(* C16 *)

\* the top-level call e was a jumpTo that the guard of line 512 let through
IsAcceptedJump(e) ==
    /\ e.call.name = "jumpTo"
    /\ e.call.type = <<"number">>
    /\ e.call.index >= 0 /\ e.call.index < 2 * Len(e.history)

\* the top-level call e was a dispatch, or an undo or redo that returned
\* true, or a jumpTo with an index that jumpTo accepts
IsDelivered(e) ==
    \/ e.call.name = "dispatch"
    \/ e.call.name \in {"undo", "redo"} /\ e.ret = "true"
    \/ IsAcceptedJump(e)

\* the name under which the top-level call e is delivered
DeliveredAs(e) ==
    IF e.call.name = "dispatch" THEN e.call.type ELSE HistoryJump

\* C16: every dispatch (a set action, an unknown action, one that changes
\* nothing) and every successful undo, redo or jumpTo invokes each registered
\* global listener and each watch-all listener exactly once before it
\* returns; a history navigation is delivered to the global listeners as the
\* action 'history-jump'.
\* (The call is one during which no listener calls back into the store.)
C16_EveryListenerOnce ==
    (Len(log) >= 1 /\ IsDelivered(Last) /\ Plain(Last))
    => /\ \A i \in DOMAIN Last.listeners :
             /\ Cardinality(ListenerCalls(Last, i)) = 1
             /\ \A k \in ListenerCalls(Last, i) :
                   Last.calls[k].type = DeliveredAs(Last)
       /\ \A i \in DOMAIN Last.watchAllFns :
             Cardinality({k \in WatchAllCalls(Last) : Last.calls[k].i = i}) = 1

-----------------------------------------------------------------------------
(* C17 *)

\* the functions in `listeners` of the store j before the top-level call e
ListenersOf(e, j) == IF j = 1 THEN e.listeners ELSE e.others[j].listeners

\* the theme of the store j before the top-level call e
ThemeBefore(e, j) ==
    Get(IF j = 1 THEN e.state ELSE e.others[j].state, KeyTheme)

\* the theme of the store j now
Theme(j) == Get(IF j = 1 THEN state ELSE others[j].state, KeyTheme)

\* the watchers that links have put on the store j
LinkWatchersOf(e, j) ==
    {i \in DOMAIN ListenersOf(e, j) : ListenersOf(e, j)[i].link # NoLink}

\* the listeners that subscribe has put on the store j
ObserversOf(e, j) ==
    {i \in DOMAIN ListenersOf(e, j) : ListenersOf(e, j)[i].kind = "subscribe"}

\* the dispatches that the store j received during the top-level call e
DispatchesOn(e, j) == {k \in DOMAIN e.dispatches : e.dispatches[k].store = j}

\* the calls of the i-th listener of the store j during the top-level call e
ListenerCallsOn(e, j, i) ==
    {k \in DOMAIN e.calls :
        e.calls[k].who = "listener" /\ e.calls[k].store = j /\ e.calls[k].i = i}

\* the top-level call e was dispatch('set-theme', v) on a store, and a
\* single linkTwoWay had been made
IsLinkedDispatch(e) ==
    /\ e.call.name = "dispatch" /\ e.call.type = SetTheme
    /\ Len(locked) = 1
    /\ LinkWatchersOf(e, e.on) # {}

\* what holds of the store A of a linked dispatch in any case: A received
\* the one dispatch, its listeners were called once, its theme is the value
\* dispatched
NothingComesBack(e) ==
    /\ Cardinality(DispatchesOn(e, e.on)) = 1
    /\ \A i \in ObserversOf(e, e.on) :
          Cardinality(ListenerCallsOn(e, e.on, i)) = 1
    /\ Theme(e.on) = e.call.payload

\* C17: with two stores A and B joined by a single linkTwoWay on the key
\* theme, dispatch('set-theme', v) on A ends with the theme of B equal to
\* the transformed value, nothing is dispatched back onto A (A receives the
\* one dispatch, a global listener on A is called once), and the theme of A
\* is v; the same holds from B to A.
C17_LinkedDispatchConverges ==
    (Len(log) >= 1 /\ IsLinkedDispatch(Last))
    => /\ \A i \in LinkWatchersOf(Last, Last.on) :
             LET l == ListenersOf(Last, Last.on)[i]
             IN  Theme(l.link.to) = transform(l.link.fn, Last.call.payload)
       /\ NothingComesBack(Last)

\* C17 as the code has it: the value is passed on when it differs from the
\* theme that the link's watcher on A last saw; B then receives one dispatch
\* and its theme is the transformed value. Otherwise B receives nothing and
\* keeps its theme. In both cases nothing is dispatched back onto A.
\* (The listeners are the watchers of the link and functions that do not
\* call a store.)
C17_LinkedDispatchPassesChanges ==
    (Len(log) >= 1 /\ IsLinkedDispatch(Last))
    => /\ \A i \in LinkWatchersOf(Last, Last.on) :
             LET l == ListenersOf(Last, Last.on)[i]
                 B == l.link.to
             IN  IF Differs(Last.call.payload, l.prev)
                 THEN /\ Theme(B) = transform(l.link.fn, Last.call.payload)
                      /\ Cardinality(DispatchesOn(Last, B)) = 1
                 ELSE /\ Theme(B) = ThemeBefore(Last, B)
                      /\ DispatchesOn(Last, B) = {}
       /\ NothingComesBack(Last)

\* a dispatch on a linked store has changed the theme of the other store to
\* the transformed value, which is not the value dispatched
C17_Witness ==
    /\ Len(log) >= 1 /\ IsLinkedDispatch(Last)
    /\ \E i \in LinkWatchersOf(Last, Last.on) :
          LET l == ListenersOf(Last, Last.on)[i]
          IN  /\ Differs(Last.call.payload, l.prev)
              /\ Theme(l.link.to) # ThemeBefore(Last, l.link.to)
              /\ Theme(l.link.to) # Last.call.payload
              /\ ObserversOf(Last, Last.on) # {}

-----------------------------------------------------------------------------
(* C18 *)

\* C18: whatever links linkTwoWay has made between the stores (cycles
\* included), every dispatch, undo, redo and jumpTo on a store returns: the
\* calls it sets off never nest deeper than MaxDepth, and when it has
\* returned no link is locked.
C18_LinkedCallsTerminate ==
    Len(log) >= 1
    => /\ ~Last.overflow
       /\ \A k \in DOMAIN locked : ~locked[k]

\* a call on a store in a cycle of links: the store it was made on received
\* a dispatch back through another link
C18_Witness ==
    /\ Len(log) >= 1 /\ Last.call.name \in {"dispatch", "undo", "redo", "jumpTo"}
    /\ Len(locked) >= 2
    /\ Last.nested >= 3
    /\ \E k \in DOMAIN Last.dispatches :
          k > 1 /\ Last.dispatches[k].store = Last.on

-----------------------------------------------------------------------------
(* C19 *)

\* C19: when a change-producing dispatch without skipHistory returns, every
\* registered listener has been invoked with the new state in place and the
\* history reflects it: history[currentIndex] equals getState() and
\* currentIndex is the last index.
\* (The dispatch is one during which no listener calls back into the store.)
C19_DispatchIsComplete ==
    (Len(log) >= 1 /\ IsRecordedChange(Last) /\ Plain(Last))
    => /\ \A i \in DOMAIN Last.listeners :
             \E k \in ListenerCalls(Last, i) :
                structuredClone(Last.calls[k].seen) = getState
       /\ \A k \in WatchAllCalls(Last) :
             structuredClone(Last.calls[k].seen) = getState
       /\ __historyIndex = 2 * (Len(__history) - 1)
       /\ HistoryAt(__history, __historyIndex) = getState

-----------------------------------------------------------------------------
(* C20 *)

\* the top-level call e was a dispatch, an undo, a redo or a jumpTo
IsMutatingCall(e) == e.call.name \in {"dispatch", "undo", "redo", "jumpTo"}

\* the store that the top-level call e found, with listeners that return
\* where those of e throw
Calmed(e) ==
    StoreOf(e.state, e.history, e.index,
            [i \in DOMAIN e.listeners |->
                IF e.listeners[i].kind = "throws" THEN Observer ELSE e.listeners[i]],
            e.watchAllFns, FALSE)

\* the store after the call of e has been made on it to its end
Completed(e) ==
    CASE e.call.name = "dispatch" ->
            dispatch(Calmed(e), e.call.type, e.call.payload, e.call.skipHistory,
                     MaxDepth)
      [] e.call.name = "undo" -> undo(Calmed(e), MaxDepth)
      [] e.call.name = "redo" -> redo(Calmed(e), MaxDepth)
      [] e.call.name = "jumpTo" -> jumpTo(Calmed(e), e.call, MaxDepth)

\* C20: every mutating operation (dispatch, undo, redo, jumpTo) fully applies
\* or fully no-ops, also when a listener throws while it is notified: after
\* the call the state document, the history and the current index are all as
\* before the call or all as after the completed call.
C20_AllOrNothing ==
    (Len(log) >= 1 /\ IsMutatingCall(Last))
    => \/ /\ getState = structuredClone(Last.state)
          /\ __history = Last.history
          /\ __historyIndex = Last.index
       \/ /\ getState = structuredClone(Completed(Last).state)
          /\ __history = Completed(Last).history
          /\ __historyIndex = Completed(Last).index

-----------------------------------------------------------------------------
(* C21 *)

\* the i-th entry of the history is not one that the top-level call e has
\* discarded: e pushed nothing, or the entry was not after the current index
IsKept(e, i) == IsRecordedChange(e) => 2 * (i - 1) <= e.index

\* C21: history[0] always equals the state the store had at construction,
\* and a stored snapshot is immutable: an entry that a dispatch, undo, redo,
\* jumpTo or the mutation of an object dispatched earlier has not discarded
\* is still in the history with the same content.
\* (The second part is about calls during which no listener calls back into
\* the store.)
C21_SnapshotsAreImmutable ==
    Len(log) >= 1
    => /\ Len(__history) >= 1
       /\ __history[1] = log[1].history[1]
       /\ Plain(Last)
          => \A i \in DOMAIN Last.history :
                IsKept(Last, i)
                => i \in DOMAIN __history /\ __history[i] = Last.history[i]

-----------------------------------------------------------------------------
(* C22 *)

\* C22: the history never holds duplicate state entries: in every reachable
\* state no two consecutive snapshots history[i] and history[i+1] are equal.
C22_NoDuplicateSnapshots ==
    \A i \in 1..(Len(__history) - 1) : __history[i] # __history[i + 1]

-----------------------------------------------------------------------------
(* C23 *)

\* the last two top-level calls were jumpTo(i) and jumpTo(i) again, with i an
\* index of the history
IsRepeatedJump ==
    /\ Len(log) >= 2
    /\ Last.call.name = "jumpTo" /\ Last.call.type = <<"number">>
    /\ log[Len(log) - 1].call = Last.call
    /\ IsIndexOf(Last.call.index, log[Len(log) - 1].history)

\* C23: jumpTo is idempotent: for a valid index i, a second jumpTo(i)
\* directly after a first jumpTo(i) leaves the state document, the history
\* and the current index exactly as the first call left them.
\* (The calls are ones during which no listener calls back into the store.)
C23_JumpToIsIdempotent ==
    (IsRepeatedJump /\ Plain(Last) /\ Plain(log[Len(log) - 1]))
    => /\ getState = structuredClone(Last.state)
       /\ __history = Last.history
       /\ __historyIndex = Last.index

\* a second jumpTo(i) after a first one that has changed the state and the
\* current index
C23_Witness ==
    /\ IsRepeatedJump /\ Plain(Last) /\ Plain(log[Len(log) - 1])
    /\ structuredClone(log[Len(log) - 1].state) # structuredClone(Last.state)
    /\ log[Len(log) - 1].index # Last.index
    /\ __historyIndex = Last.call.index

-----------------------------------------------------------------------------
(* C24 *)

\* the i-th function of `listeners` was registered with once
IsOnce(i) == listeners[i].kind \in {"once", "off"}

\* the calls of the fn of the i-th listener during the top-level call e
OnceCalls(e, i) ==
    {k \in DOMAIN e.calls : e.calls[k].who = "once" /\ e.calls[k].i = i}

RECURSIVE TimesCalled(_, _)
\* how often the fn of the i-th listener was called during the first n
\* top-level calls
TimesCalled(i, n) ==
    IF n = 0
    THEN 0
    ELSE TimesCalled(i, n - 1) + Cardinality(OnceCalls(log[n], i))

\* C24: once(name, fn) invokes fn for the first dispatch whose action name
\* equals name and never again: whatever is dispatched later, from inside fn
\* or from another listener during the same notification included, fn is
\* invoked at most once in total.
C24_OnceFiresOnce ==
    \A i \in DOMAIN listeners :
        IsOnce(i)
        => /\ TimesCalled(i, Len(log)) <= 1
           /\ listeners[i].kind = "off" <=> TimesCalled(i, Len(log)) = 1

-----------------------------------------------------------------------------
(* C25 *)

\* the top-level keys of a document
KeysOf(doc) == {doc[i].k : i \in DOMAIN doc}

\* the documents a and b have the same top-level keys other than k, with
\* the same values
SameButFor(a, b, k) ==
    /\ KeysOf(a) \ {k} = KeysOf(b) \ {k}
    /\ \A j \in KeysOf(a) \ {k} : Get(a, j) = Get(b, j)

\* the values v and w have the same fields other than k, with the same
\* values
SameFieldsButFor(v, w, k) ==
    {e \in {v.d[j] : j \in DOMAIN v.d} : e.k # k}
        = {e \in {w.d[j] : j \in DOMAIN w.d} : e.k # k}

\* the top-level call e was a set dispatch for a dotted path, or the change
\* of the bound input that issues one
IsPathSet(e) ==
    \/ e.call.name = "dispatch" /\ e.call.type = SetXB
    \/ e.call.name = "input" /\ e.dispatches # <<>>

\* C25: a set dispatch replaces only its target and leaves every sibling
\* untouched: dispatch('set-k', v) changes no top-level key other than k,
\* and a set-<path> dispatch for a dotted path a.b (as issued when a bound
\* input changes) makes the value at the path a.b equal to v without adding
\* or changing any other top-level key or any sibling under a.
C25_SetReplacesOnlyItsTarget ==
    Len(log) >= 1
    => /\ (Last.call.name = "dispatch" /\ IsSetAction(Last.call.type)
           /\ Last.call.type # SetXB)
          => SameButFor(getState, structuredClone(Last.state),
                        KeyOf(Last.call.type))
       /\ IsPathSet(Last)
          => /\ getAtPath(getState, PathXB) = Last.call.payload
             /\ SameButFor(getState, structuredClone(Last.state), KeyX)
             /\ SameFieldsButFor(Get(getState, KeyX), Get(Last.state, KeyX), "b")

-----------------------------------------------------------------------------
(* C26 *)

\* the top-level call e has changed the value of the key
HasChangedKey(e, key) ==
    /\ e.call.name \in {"dispatch", "undo", "redo", "jumpTo"}
    /\ Differs(Get(e.state, key), Get(state, key))

\* C26: for a store whose key x is persisted and whose storage never fails,
\* after a set-x dispatch, undo, redo or jumpTo that has changed the value
\* of x the item stored under x is encode(state[x]).
C26_StorageFollowsState ==
    (Len(log) >= 1 /\ HasChangedKey(Last, KeyX))
    => /\ Has(storage, KeyX)
       /\ Get(storage, KeyX) = storageEncrypt(Get(state, KeyX))

-----------------------------------------------------------------------------
(* C27 *)

\* C27: the flag `locked` of a two-way link is false whenever no dispatch is
\* in progress: after every top-level dispatch or history operation on a
\* linked store has ended, normally or because a listener threw.
C27_UnlockedAtRest == \A k \in DOMAIN locked : ~locked[k]

-----------------------------------------------------------------------------
(* C28 *)

\* no dispatch of the run used skipHistory, and no listener dispatched or
\* navigated the history while it was being notified
IsOrdinaryRun ==
    \A n \in DOMAIN log :
        /\ log[n].call.name = "dispatch" => ~log[n].call.skipHistory
        /\ Plain(log[n])

\* C28: in a run in which no dispatch uses skipHistory and no listener
\* dispatches or navigates the history re-entrantly, whenever no operation
\* is in progress the live state document equals history[currentIndex]
\* (as JSON.stringify tells).
C28_StateIsCurrentSnapshot ==
    IsOrdinaryRun
    => /\ IsIndexOf(__historyIndex, __history)
       /\ JSON_stringify(state)
             = JSON_stringify(HistoryAt(__history, __historyIndex))

-----------------------------------------------------------------------------
(* C29 *)

\* the state after the k-th dispatch of the top-level call e, when each of
\* them is a set-x or a set-y
RECURSIVE StateAfter(_, _)
StateAfter(e, k) ==
    IF k = 0
    THEN e.state
    ELSE Assign(StateAfter(e, k - 1), KeyOf(e.dispatches[k].type),
                e.dispatches[k].payload)

\* the top-level call e was a dispatch D1 during whose notification a
\* listener made one dispatch D2, both producing a change, none with
\* skipHistory
IsNestedChange(e) ==
    /\ e.call.name = "dispatch" /\ ~e.call.skipHistory
    /\ e.nested = 1 /\ Len(e.dispatches) = 2
    /\ \A k \in 1..2 : e.dispatches[k].type \in {SetX, SetY}
    /\ \A k \in 1..2 :
          JSON_stringify(StateAfter(e, k)) # JSON_stringify(StateAfter(e, k - 1))

\* C29: when a listener, during the notification of a change-producing
\* dispatch D1, issues a change-producing dispatch D2 on the same store, the
\* history afterwards ends with the state produced by D1 followed by the
\* state produced by D2, and the current index is the last index.
C29_NestedDispatchRecordsBoth ==
    (Len(log) >= 1 /\ IsNestedChange(Last))
    => /\ Len(__history) >= 2
       /\ __history[Len(__history) - 1] = structuredClone(StateAfter(Last, 1))
       /\ __history[Len(__history)] = structuredClone(StateAfter(Last, 2))
       /\ __historyIndex = 2 * (Len(__history) - 1)

-----------------------------------------------------------------------------
(* C30 *)

\* before the top-level call e the store a had a watcher of a one-way link
\* that dispatches on the store b
IsLinkedOneWay(e, a, b) ==
    \E i \in LinkWatchersOf(e, a) :
        LET l == ListenersOf(e, a)[i]
        IN  l.link.to = b /\ l.link.lock = 0

\* the top-level call e was dispatch('set-theme', v) on a store A that is
\* joined to the store B by A.link(B, 'theme') and B.link(A, 'theme')
IsMutualDispatch(e, B) ==
    /\ e.call.name = "dispatch" /\ e.call.type = SetTheme
    /\ B # e.on
    /\ IsLinkedOneWay(e, e.on, B) /\ IsLinkedOneWay(e, B, e.on)

\* C30: for two stores joined by mutual one-way links on the same key
\* without transforms, every dispatch of set-theme on either store ends
\* after finitely many nested dispatches (they never nest deeper than
\* MaxDepth) with both stores holding the dispatched value.
C30_MutualLinksSettle ==
    \A B \in StoreIds :
        (Len(log) >= 1 /\ IsMutualDispatch(Last, B))
        => /\ ~Last.overflow
           /\ Theme(Last.on) = Last.call.payload
           /\ Theme(B) = Last.call.payload

====
